---- MODULE Spec2Model ----
(***************************************************************************)
(* Voxel Tools (add-on_voxel-tools.py): the three operators Generate,      *)
(* Smooth and Subdivide, acting on the host's data (objects, meshes,       *)
(* collections, node groups, materials) and on the scene's settings.       *)
(*                                                                         *)
(* Numbers.  Grid coordinates and array cells are integers.  A vertex      *)
(* position (vert.co) is a triple counted in HALF grid units, so that a    *)
(* resampled vertex may lie between two grid points; a coordinate n is     *)
(* stored as 2 * F32(n), F32 being the rounding to single precision that   *)
(* the mesh applies to every coordinate it is given.                       *)
(***************************************************************************)
EXTENDS Integers, Sequences, FiniteSets, TLC

VARIABLES
    settings,   \* context.scene.voxeltools_settings
    files,      \* the file system: absolute path -> file content
    data,       \* bpy.data: objects, collections, node_groups, materials
    active,     \* bpy.context.view_layer.objects.active
    last,       \* what the latest operator invocation did and returned
    ops         \* number of operator invocations so far

vars == <<settings, files, data, active, last, ops>>

----------------------------------------------------------------------------
(* Bounds of the model *)

\* operator invocations in one behaviour of Spec
MaxOps == 3
\* cells of a volume drawn by InitVol
MaxCells == 2
\* vertices of a resampled mesh
MaxTarget == 1

----------------------------------------------------------------------------
(* Strings and paths *)

\* str.strip() on a name given as a sequence of characters
RECURSIVE LStrip(_)
LStrip(s) == IF s # <<>> /\ Head(s) = " " THEN LStrip(Tail(s)) ELSE s

RECURSIVE RStrip(_)
RStrip(s) ==
    IF s # <<>> /\ s[Len(s)] = " " THEN RStrip(SubSeq(s, 1, Len(s) - 1)) ELSE s

\* a faulty variant of Strip: the name taken as it was typed
StripNone(s) == s

Strip(s) == RStrip(LStrip(s))

\* bpy.path.abspath: a path starting with // is relative to the directory of
\* the .blend file, /proj
Abspath(p) == IF p = "//vol_a.npy" THEN "/proj/vol_a.npy" ELSE p

\* os.path.isfile
IsFile(fs, p) == p \in DOMAIN fs

----------------------------------------------------------------------------
(* Arrays.  An array is [shape, cells]: cells maps index tuples to values, *)
(* and an index of the shape that cells does not list holds 0.             *)

Rev(i) == <<i[3], i[2], i[1]>>

InBounds(shape, i) == \A k \in 1..3 : 0 <= i[k] /\ i[k] < shape[k]

Indices(shape) ==
    {<<a, b, c>> : a \in 0..(shape[1] - 1), b \in 0..(shape[2] - 1),
                   c \in 0..(shape[3] - 1)}

\* A[i] for an index i within the shape
Cell(A, i) == IF i \in DOMAIN A.cells THEN A.cells[i] ELSE 0

\* np.load: the array of the file, or an exception when it holds none
NpLoad(fs, p) ==
    IF fs[p].kind = "npy" THEN [ok |-> TRUE, array |-> fs[p].array]
    ELSE [ok |-> FALSE, array |-> [shape |-> <<>>, cells |-> <<>>]]

\* np.transpose(A, (2, 1, 0)); raises unless A has three axes
CanTranspose(A) == Len(A.shape) = 3

Transpose(A) ==
    [shape |-> Rev(A.shape),
     cells |-> [i \in {Rev(j) : j \in DOMAIN A.cells} |-> A.cells[Rev(i)]]]

LexLess(i, j) ==
    \/ i[1] < j[1]
    \/ i[1] = j[1] /\ i[2] < j[2]
    \/ i[1] = j[1] /\ i[2] = j[2] /\ i[3] < j[3]

RECURSIVE SortLex(_)
SortLex(S) ==
    IF S = {} THEN <<>>
    ELSE LET m == CHOOSE x \in S : \A y \in S \ {x} : LexLess(x, y)
         IN  <<m>> \o SortLex(S \ {m})

\* a faulty variant of ArgWhere, np.argwhere(mask): the cells that are not 0
ArgWhereNonzero(A) == SortLex({i \in DOMAIN A.cells : A.cells[i] # 0})

\* np.argwhere(mask > 0): the indices of the positive cells, in row-major order
ArgWhere(A) == SortLex({i \in DOMAIN A.cells : A.cells[i] > 0})

----------------------------------------------------------------------------
(* Single precision *)

RECURSIVE Ulp(_)
Ulp(n) == IF n < 16777216 THEN 1 ELSE 2 * Ulp(n \div 2)

\* a non-negative integer rounded to the nearest single-precision number, ties
\* to the even significand
F32(n) ==
    LET u == Ulp(n)
        q == n \div u
        r == n % u
    IN  IF 2 * r < u THEN q * u
        ELSE IF 2 * r > u THEN (q + 1) * u
        ELSE IF q % 2 = 0 THEN q * u ELSE (q + 1) * u

\* the position a mesh stores for the vertex tuple(coord), in half grid units
ToCo(coord) == [k \in 1..3 |-> 2 * F32(coord[k])]

\* int(round(v)) of a coordinate v given in half grid units: Python rounds a
\* tie to the even integer
PyRound(h) ==
    IF h % 2 = 0 THEN h \div 2
    ELSE LET f == (h - 1) \div 2 IN IF f % 2 = 0 THEN f ELSE f + 1

RoundCo(co) == [k \in 1..3 |-> PyRound(co[k])]

----------------------------------------------------------------------------
(* The host's data.  An object is named <<base, n>>: <<"Cloud", 0>> is the  *)
(* object "Cloud", <<"Cloud", 1>> is "Cloud.001", and so on.               *)

EmptyMap == [x \in {} |-> 0]

Put(f, k, v) == (k :> v) @@ f

Drop(f, k) == [x \in DOMAIN f \ {k} |-> f[x]]

RECURSIVE FreeSuffix(_, _, _)
FreeSuffix(base, used, n) ==
    IF <<base, n>> \in used THEN FreeSuffix(base, used, n + 1) ELSE n

\* bpy.data.<collection>.new(name, ...): a name in use gets the next free
\* numeric suffix
UniqueName(base, used) == <<base, FreeSuffix(base, used, 0)>>

EmptyData ==
    [objects |-> EmptyMap, collections |-> EmptyMap,
     node_groups |-> EmptyMap, materials |-> EmptyMap]

coll_name == "Voxel Gen Output"

\* collections.get(coll_name), created when missing, with obj linked to it
LinkToOutput(d, obj) ==
    LET linked == IF coll_name \in DOMAIN d.collections
                  THEN d.collections[coll_name] ELSE {}
    IN  [d EXCEPT !.collections = Put(@, coll_name, linked \cup {obj})]

\* do_unlink: the object leaves every collection
Unlink(d, obj) ==
    [d EXCEPT !.collections = [c \in DOMAIN @ |-> @[c] \ {obj}]]

Identity == <<0, 0, 0>>

\* obj.matrix_world @ co, for the translations the model knows
World(obj, co) == [k \in 1..3 |-> co[k] + obj.matrix_world[k]]

Sentinel == <<0, 0, 0, 0>>

\* what a colour slot holds before anything is assigned to it
DefaultColors == {<<0, 0, 0, 0>>, <<1, 1, 1, 1>>}

\* (val, val, val, 1.0) as a FLOAT_COLOR holds it
ColorOf(val) == <<F32(val), F32(val), F32(val), 1>>

----------------------------------------------------------------------------
(* Generate *)

\* the loop over mesh.vertices; acc is [colors, assigned, raised]
RECURSIVE SampleLoop(_, _, _, _, _)
SampleLoop(i, vertices, mask, lac, acc) ==
    IF i > Len(vertices) THEN acc
    ELSE
      LET xyz == RoundCo(vertices[i]) IN
      IF InBounds(mask.shape, xyz)
      THEN IF Cell(mask, xyz) > 0
           THEN IF InBounds(lac.shape, xyz)
                THEN SampleLoop(i + 1, vertices, mask, lac,
                        [acc EXCEPT !.colors[i] = ColorOf(Cell(lac, xyz)),
                                    !.assigned = @ \cup {i}])
                ELSE [acc EXCEPT !.raised = TRUE]
           ELSE SampleLoop(i + 1, vertices, mask, lac,
                        [acc EXCEPT !.colors[i] = Sentinel,
                                    !.assigned = @ \cup {i}])
      ELSE SampleLoop(i + 1, vertices, mask, lac, acc)

InstanceNodes ==
    <<"NodeGroupInput", "NodeGroupOutput", "GeometryNodeMeshToPoints",
      "GeometryNodeInstanceOnPoints", "GeometryNodeRealizeInstances",
      "GeometryNodeSetMaterial", "GeometryNodeMeshCube">>

\* the node group Voxel_Instances, looked up or created, its nodes cleared and
\* rebuilt, two more sockets added to its interface
InstancesGroup(d) ==
    LET old == IF "Voxel_Instances" \in DOMAIN d.node_groups
               THEN d.node_groups["Voxel_Instances"]
               ELSE [nodes |-> <<>>, links |-> 0, sockets |-> 0]
    IN  [nodes |-> InstanceNodes, links |-> 6, sockets |-> old.sockets + 2]

\* the material Voxel_Map: its attribute node renamed when it exists, built
\* otherwise
VoxelMap(d, attr_name) ==
    IF "Voxel_Map" \in DOMAIN d.materials
    THEN [d.materials["Voxel_Map"] EXCEPT !.attribute_name = attr_name]
    ELSE [attribute_name |-> attr_name, nodes |-> 4, links |-> 3]

GenerateResult(ret, report, d, loads, created, coords, assigned) ==
    [op |-> "generate", ret |-> ret, report |-> report, data |-> d,
     loads |-> loads, created |-> created, coords |-> coords,
     assigned |-> assigned, nearest |-> <<>>]

\* a faulty variant of LacVolume: the value array left in its stored axis order
LacVolumeStored(lac0) == lac0

\* lac = np.transpose(np.load(lac_path), (2, 1, 0))
LacVolume(lac0) == Transpose(lac0)

\* mask = np.transpose(np.load(mask_path), (2, 1, 0))
MaskVolume(mask0) == Transpose(mask0)

\* the try block once both arrays are loaded
GenerateBuild(d, attr_name, lac0, mask0, dflt) ==
    LET lac      == LacVolume(lac0)
        mask     == MaskVolume(mask0)
        coords   == ArgWhere(mask)
        name     == UniqueName("Cloud", DOMAIN d.objects)
        verts    == coords
        vertices == [i \in 1..Len(verts) |-> ToCo(verts[i])]
        acc      == SampleLoop(1, vertices, mask, lac,
                        [colors   |-> [i \in 1..Len(vertices) |-> dflt],
                         assigned |-> {},
                         raised   |-> FALSE])
        mesh     == [vertices |-> vertices,
                     color_attributes |-> (attr_name :> acc.colors),
                     materials |-> <<>>,
                     subdiv |-> 0]
        obj      == [data |-> mesh, modifiers |-> <<>>,
                     matrix_world |-> Identity]
        d1       == LinkToOutput([d EXCEPT !.objects = Put(@, name, obj)], name)
        mod      == [name |-> "VoxelGeoNodes", type |-> "NODES",
                     node_group |-> "Voxel_Instances"]
        d2       == [d1 EXCEPT
                       !.node_groups = Put(@, "Voxel_Instances", InstancesGroup(d1)),
                       !.materials = Put(@, "Voxel_Map", VoxelMap(d1, attr_name)),
                       !.objects[name].modifiers = Append(@, mod)]
    IN  IF acc.raised
        THEN GenerateResult("CANCELLED", "Generation failed", d1, 2, name, coords,
                            acc.assigned)
        ELSE GenerateResult("FINISHED", "Generated voxel mesh", d2, 2, name, coords,
                            acc.assigned)

\* VOXELTOOLS_OT_Generate.execute
GenerateExecute(s, fs, d, dflt) ==
    LET lac_path  == IF s.lac_path # "" THEN Abspath(s.lac_path) ELSE ""
        mask_path == IF s.mask_path # "" THEN Abspath(s.mask_path) ELSE ""
        attr_name == Strip(s.attribute_name)
    IN  IF lac_path = "" \/ ~IsFile(fs, lac_path)
        THEN GenerateResult("CANCELLED", "Invalid or missing Param .npy path.",
                            d, 0, <<>>, <<>>, {})
        ELSE IF mask_path = "" \/ ~IsFile(fs, mask_path)
        THEN GenerateResult("CANCELLED", "Invalid or missing Mask .npy path.",
                            d, 0, <<>>, <<>>, {})
        ELSE IF attr_name = <<>>
        THEN GenerateResult("CANCELLED", "Attribute Name cannot be empty.",
                            d, 0, <<>>, <<>>, {})
        ELSE IF ~NpLoad(fs, lac_path).ok
        THEN GenerateResult("CANCELLED", "Generation failed", d, 1, <<>>, <<>>, {})
        ELSE IF ~CanTranspose(NpLoad(fs, lac_path).array)
        THEN GenerateResult("CANCELLED", "Generation failed", d, 1, <<>>, <<>>, {})
        ELSE IF ~NpLoad(fs, mask_path).ok
        THEN GenerateResult("CANCELLED", "Generation failed", d, 2, <<>>, <<>>, {})
        ELSE IF ~CanTranspose(NpLoad(fs, mask_path).array)
        THEN GenerateResult("CANCELLED", "Generation failed", d, 2, <<>>, <<>>, {})
        ELSE GenerateBuild(d, attr_name, NpLoad(fs, lac_path).array,
                           NpLoad(fs, mask_path).array, dflt)

Generate ==
    /\ ops < MaxOps
    /\ \E dflt \in DefaultColors :
         LET r == GenerateExecute(settings, files, data, dflt) IN
         /\ data' = r.data
         /\ last' = [r EXCEPT !.data = 0]
    /\ ops' = ops + 1
    /\ UNCHANGED <<settings, files, active>>

----------------------------------------------------------------------------
(* Smooth *)

Cloud == <<"Cloud", 0>>

SmoothName == <<"Smooth", 0>>

\* positions a resampled vertex may have, in half grid units
TargetPoints == {<<-1, 0, 0>>, <<1, 0, 0>>, <<3, 0, 0>>, <<0, 1, 0>>}

Targets == UNION {[1..n -> TargetPoints] : n \in 0..MaxTarget}

\* the vertices modifier_apply may leave on the Smooth mesh (mesh to points,
\* points to volume, volume to mesh): none when the mesh has no vertex
Resampled(mesh) == IF mesh.vertices = <<>> THEN {<<>>} ELSE Targets

DistSq(p, q) ==
    (p[1] - q[1]) * (p[1] - q[1]) + (p[2] - q[2]) * (p[2] - q[2])
        + (p[3] - q[3]) * (p[3] - q[3])

\* a faulty variant of Nearest: the first point inserted, wherever q is
NearestFirst(points, q) == IF points = <<>> THEN {} ELSE {1}

\* the stored indices kd.find(q) may return: those of the points nearest to q
Nearest(points, q) ==
    {j \in 1..Len(points) :
        \A k \in 1..Len(points) : DistSq(points[j], q) <= DistSq(points[k], q)}

\* a faulty variant of KdPoints: the points inserted under the indices counted
\* from the last vertex
KdPointsReversed(cloud_obj) ==
    [i \in 1..Len(cloud_obj.data.vertices) |->
        World(cloud_obj,
              cloud_obj.data.vertices[Len(cloud_obj.data.vertices) + 1 - i])]

\* the tree's points: cloud_obj.matrix_world @ v.co, in insertion order
KdPoints(cloud_obj) ==
    [i \in 1..Len(cloud_obj.data.vertices) |->
        World(cloud_obj, cloud_obj.data.vertices[i])]

\* the results the loop over target.vertices may get from kd.find
Finds(cloud_obj, smooth_obj, target) ==
    {f \in [1..Len(target) -> 1..Len(cloud_obj.data.vertices)] :
        \A i \in 1..Len(target) :
            f[i] \in Nearest(KdPoints(cloud_obj), World(smooth_obj, target[i]))}

SmoothNodes ==
    <<"NodeGroupInput", "NodeGroupOutput", "GeometryNodeMeshToPoints",
      "GeometryNodePointsToVolume", "GeometryNodeVolumeToMesh">>

\* the node group Voxel_Smooth, built when missing, its Points to Volume
\* inputs set from the settings every time
SmoothGroup(d, s) ==
    LET g == IF "Voxel_Smooth" \in DOMAIN d.node_groups
             THEN d.node_groups["Voxel_Smooth"]
             ELSE [nodes |-> SmoothNodes, links |-> 4, sockets |-> 2,
                   voxel_amount |-> s.voxel_amount,
                   voxel_radius |-> s.voxel_radius]
    IN  [g EXCEPT !.voxel_amount = s.voxel_amount,
                  !.voxel_radius = s.voxel_radius]

SmoothResult(ret, report, d, act, nearest) ==
    [op |-> "smooth", ret |-> ret, report |-> report, data |-> d,
     active |-> act, loads |-> 0, created |-> <<>>, coords |-> <<>>,
     assigned |-> {},
     nearest |-> nearest]

\* the Smooth object once both modifiers are applied: the copy of Cloud with
\* the resampled geometry, which carries no attribute and no modifier
SmoothBaked(cloud_obj, target) ==
    [cloud_obj EXCEPT
        !.data = [vertices |-> target, color_attributes |-> EmptyMap,
                  materials |-> cloud_obj.data.materials, subdiv |-> 0],
        !.modifiers = <<>>]

\* the old Smooth object removed, the new one linked, the node group ready
SmoothPrepare(s, d, target) ==
    LET d1 == IF SmoothName \in DOMAIN d.objects
              THEN Unlink([d EXCEPT !.objects = Drop(@, SmoothName)], SmoothName)
              ELSE d
        d2 == LinkToOutput(
                [d1 EXCEPT !.objects =
                    Put(@, SmoothName, SmoothBaked(d.objects[Cloud], target))],
                SmoothName)
    IN  [d2 EXCEPT !.node_groups = Put(@, "Voxel_Smooth", SmoothGroup(d2, s))]

\* the transfer: target attribute created, each vertex given the colour of the
\* source vertex kd.find returned for it; then the material reassigned
SmoothTransfer(d, attr_name, find) ==
    LET source == d.objects[Cloud].data
        src_colors == source.color_attributes[attr_name]
        target == d.objects[SmoothName].data
        colors == [i \in 1..Len(target.vertices) |-> src_colors[find[i]]]
        mats == IF "Voxel_Map" \in DOMAIN d.materials
                THEN <<"Voxel_Map">> ELSE <<>>
    IN  [d EXCEPT !.objects[SmoothName].data.color_attributes =
                        Put(@, attr_name, colors),
                  !.objects[SmoothName].data.materials = mats]

\* VOXELTOOLS_OT_Smooth.execute
SmoothExecute(s, d, act, target, find) ==
    LET attr_name == Strip(s.attribute_name) IN
    IF Cloud \notin DOMAIN d.objects
    THEN SmoothResult("CANCELLED", "No 'Cloud' object found. Run Generate first.",
                      d, act, <<>>)
    ELSE IF attr_name \notin DOMAIN d.objects[Cloud].data.color_attributes
    THEN SmoothResult("CANCELLED", "Attribute not found on Cloud.",
                      SmoothPrepare(s, d, target), SmoothName, <<>>)
    ELSE SmoothResult("FINISHED", "Smoothed mesh created from original 'Cloud'",
                      SmoothTransfer(SmoothPrepare(s, d, target), attr_name, find),
                      SmoothName, find)

Smooth ==
    /\ ops < MaxOps
    /\ \E target \in (IF Cloud \in DOMAIN data.objects
                      THEN Resampled(data.objects[Cloud].data) ELSE {<<>>}) :
       \E find \in (IF Cloud \in DOMAIN data.objects
                    THEN Finds(data.objects[Cloud], data.objects[Cloud], target)
                    ELSE {<<>>}) :
         LET r == SmoothExecute(settings, data, active, target, find) IN
         /\ data' = r.data
         /\ active' = r.active
         /\ last' = [op |-> r.op, ret |-> r.ret, report |-> r.report, data |-> 0,
                     loads |-> r.loads, created |-> r.created, coords |-> r.coords,
                     assigned |-> r.assigned, nearest |-> r.nearest]
    /\ ops' = ops + 1
    /\ UNCHANGED <<settings, files>>

----------------------------------------------------------------------------
(* Subdivide *)

\* VOXELTOOLS_OT_Subdivide.execute: one level of subdivision applied to the
\* mesh of the object Smooth
SubdivideExecute(d, act) ==
    IF SmoothName \notin DOMAIN d.objects
    THEN [ret |-> "CANCELLED", report |-> "No 'Smooth' object found. Run Smooth first.",
          data |-> d, active |-> act]
    ELSE [ret |-> "FINISHED", report |-> "Subdivided 'Smooth' mesh by 1 level",
          data |-> [d EXCEPT !.objects[SmoothName].data.subdiv = @ + 1],
          active |-> SmoothName]

Subdivide ==
    /\ ops < MaxOps
    /\ LET r == SubdivideExecute(data, active) IN
         /\ data' = r.data
         /\ active' = r.active
         /\ last' = [op |-> "subdivide", ret |-> r.ret, report |-> r.report,
                     data |-> 0, loads |-> 0, created |-> <<>>, coords |-> <<>>,
                     assigned |-> {}, nearest |-> <<>>]
    /\ ops' = ops + 1
    /\ UNCHANGED <<settings, files>>

----------------------------------------------------------------------------
(* The settings, edited in the panel *)

lac_ves == <<"l", "a", "c", "_", "v", "e", "s">>

NameSet == {lac_ves, <<" ", "b", " ">>, <<" ">>}

PathSet == {"", "//vol_a.npy", "/proj/vol_b.npy", "/proj/none.npy"}

DefaultSettings ==
    [lac_path |-> "", mask_path |-> "", attribute_name |-> lac_ves,
     voxel_amount |-> 512, voxel_radius |-> 1]

SetLacPath ==
    /\ \E p \in PathSet : settings' = [settings EXCEPT !.lac_path = p]
    /\ UNCHANGED <<files, data, active, last, ops>>

SetMaskPath ==
    /\ \E p \in PathSet : settings' = [settings EXCEPT !.mask_path = p]
    /\ UNCHANGED <<files, data, active, last, ops>>

SetAttributeName ==
    /\ \E n \in NameSet : settings' = [settings EXCEPT !.attribute_name = n]
    /\ UNCHANGED <<files, data, active, last, ops>>

----------------------------------------------------------------------------
(* Files *)

Npy(shape, cells) == [kind |-> "npy", array |-> [shape |-> shape, cells |-> cells]]

\* the files of the project directory: vol_a.npy is stored with shape
\* (1, 1, 2), vol_b.npy with shape (1, 1, 1)
Catalog ==
    ("/proj/vol_a.npy" :> Npy(<<1, 1, 2>>, (<<0, 0, 0>> :> 5) @@ (<<0, 0, 1>> :> 7)))
    @@ ("/proj/vol_b.npy" :> Npy(<<1, 1, 1>>, (<<0, 0, 0>> :> 3)))

NoOp ==
    [op |-> "none", ret |-> "", report |-> "", data |-> 0, loads |-> 0,
     created |-> <<>>, coords |-> <<>>, assigned |-> {}, nearest |-> <<>>]

Init ==
    /\ settings = DefaultSettings
    /\ files = Catalog
    /\ data = EmptyData
    /\ active = <<>>
    /\ last = NoOp
    /\ ops = 0

Next ==
    \/ SetLacPath
    \/ SetMaskPath
    \/ SetAttributeName
    \/ Generate
    \/ Smooth
    \/ Subdivide

Spec == Init /\ [][Next]_vars

----------------------------------------------------------------------------
(* One run of Generate on files drawn from bounded sets *)

Shapes ==
    {sh \in (1..MaxCells) \X (1..MaxCells) \X (1..MaxCells) :
        sh[1] * sh[2] * sh[3] <= MaxCells}

MaskCells == {-1, 0, 1}

LacCells == {5, 7}

DenseMasks == UNION {{Npy(sh, c) : c \in [Indices(sh) -> MaskCells]} : sh \in Shapes}

DenseLacs == UNION {{Npy(sh, c) : c \in [Indices(sh) -> LacCells]} : sh \in Shapes}

\* volumes with an axis longer than 2^24, given by their cells that are not 0
HugeShape == <<16777220, 1, 1>>

HugeIndices == {<<16777216, 0, 0>>, <<16777217, 0, 0>>, <<16777219, 0, 0>>}

HugeMasks == {Npy(HugeShape, c) : c \in [HugeIndices -> {0, 1}]}

HugeLacs == {Npy(HugeShape, (<<16777216, 0, 0>> :> 5) @@ (<<16777217, 0, 0>> :> 7))}

\* a file that holds no array, and one that holds an array of two axes
Malformed == {[kind |-> "text"], Npy(<<1, 2>>, (<<0, 0>> :> 1) @@ (<<0, 1>> :> 1))}

\* the scene a run may start from: a new one, or the one an earlier run on the
\* files of Catalog has left
Seeded ==
    GenerateExecute([DefaultSettings EXCEPT !.lac_path = "//vol_a.npy",
                                            !.mask_path = "/proj/vol_b.npy",
                                            !.attribute_name = <<" ", "b", " ">>],
                    Catalog, EmptyData, Sentinel).data

InitVol ==
    /\ \E L \in DenseLacs \cup HugeLacs \cup Malformed :
       \E M \in DenseMasks \cup HugeMasks \cup Malformed :
         files = ("/proj/vol_a.npy" :> L) @@ ("/proj/vol_b.npy" :> M)
    /\ \E lp \in {"", "//vol_a.npy", "/proj/none.npy"} :
       \E mp \in {"", "/proj/vol_b.npy", "/proj/none.npy"} :
       \E n \in NameSet :
         settings = [DefaultSettings EXCEPT !.lac_path = lp, !.mask_path = mp,
                                            !.attribute_name = n]
    /\ data \in {EmptyData, Seeded}
    /\ active = <<>>
    /\ last = NoOp
    /\ ops = 0

NextVol == ops = 0 /\ Generate

SpecVol == InitVol /\ [][NextVol]_vars

----------------------------------------------------------------------------
(* One run of Generate, then of Smooth, on volumes drawn from bounded sets *)

InitPipe ==
    /\ \E L \in DenseLacs : \E M \in DenseMasks :
         files = ("/proj/vol_a.npy" :> L) @@ ("/proj/vol_b.npy" :> M)
    /\ settings = [DefaultSettings EXCEPT !.lac_path = "//vol_a.npy",
                                          !.mask_path = "/proj/vol_b.npy"]
    /\ data = EmptyData
    /\ active = <<>>
    /\ last = NoOp
    /\ ops = 0

NextPipe ==
    \/ ops = 0 /\ Generate
    \/ ops = 1 /\ Smooth

SpecPipe == InitPipe /\ [][NextPipe]_vars

----------------------------------------------------------------------------
(* What the properties below speak about *)

Range(f) == {f[i] : i \in DOMAIN f}

LacPath == IF settings.lac_path # "" THEN Abspath(settings.lac_path) ELSE ""

MaskPath == IF settings.mask_path # "" THEN Abspath(settings.mask_path) ELSE ""

AttrName == Strip(settings.attribute_name)

\* the invocation that has just returned was Generate
GenerateRan == last.op = "generate"

\* it was Generate, and it got as far as building the Cloud object
CloudBuilt == GenerateRan /\ last.created # <<>>

\* the arrays as the files hold them (axes z, y, x)
StoredLac == files[LacPath].array

StoredMask == files[MaskPath].array

\* cell (x, y, z) of a stored array, in the normalized axis order
At(A, c) == Cell(A, Rev(c))

NewCloud == data.objects[last.created].data

NewColors == NewCloud.color_attributes[AttrName]

Representable(c) == \A k \in 1..3 : c[k] < 16777216

\* the re-check of the sampling loop fails for the vertex at position co
RecheckFails(co) ==
    \/ ~InBounds(Rev(StoredMask.shape), RoundCo(co))
    \/ At(StoredMask, RoundCo(co)) <= 0

\* this step is an invocation of the operator op
Invoked(op) == ops' = ops + 1 /\ last'.op = op

----------------------------------------------------------------------------
(* Generate: extraction and sampling (SpecVol) *)

\* C1: the coordinates Generate extracts and hands to the mesh are exactly the
\* cells (x, y, z) of the normalized mask that are > 0, each once; the Cloud has
\* one vertex per coordinate, at that coordinate, and has no vertex exactly
\* when the mask has no positive cell.
C1_ExtractsPositiveCells ==
    CloudBuilt =>
        /\ \A c \in Range(last.coords) :
              InBounds(Rev(StoredMask.shape), c) /\ At(StoredMask, c) > 0
        /\ \A j \in DOMAIN StoredMask.cells :
              StoredMask.cells[j] > 0 => Rev(j) \in Range(last.coords)
        /\ \A i, j \in 1..Len(last.coords) :
              last.coords[i] = last.coords[j] => i = j
        /\ Len(NewCloud.vertices) = Len(last.coords)
        /\ \A i \in 1..Len(last.coords) :
              Representable(last.coords[i]) =>
                 NewCloud.vertices[i] = [k \in 1..3 |-> 2 * last.coords[i][k]]
        /\ (NewCloud.vertices = <<>>) <=>
              (\A j \in DOMAIN StoredMask.cells : StoredMask.cells[j] <= 0)

\* a mask stored with shape (1, 1, 2) whose only positive cell is [0, 0, 1]:
\* the Cloud has the one vertex (1, 0, 0)
C1_Witness ==
    /\ CloudBuilt
    /\ StoredMask.shape = <<1, 1, 2>>
    /\ StoredMask.cells[<<0, 0, 0>>] = -1
    /\ last.coords = << <<1, 0, 0>> >>
    /\ NewCloud.vertices = << <<2, 0, 0>> >>

\* C2: mask and value array get the same axis reversal (normalized[x, y, z] =
\* stored[z, y, x]), and after Generate every vertex i that lies at the i-th
\* extracted coordinate (x, y, z), in bounds and occupied in the mask, has the
\* attribute (v, v, v, 1.0), v being the value array's cell at (x, y, z).
C2_SampledAtSameCoordinate ==
    (GenerateRan /\ last.ret = "FINISHED") =>
        \A i \in 1..Len(last.coords) :
           LET c == last.coords[i] IN
           ( /\ NewCloud.vertices[i] = [k \in 1..3 |-> 2 * c[k]]
             /\ InBounds(Rev(StoredMask.shape), c)
             /\ At(StoredMask, c) > 0 )
           => /\ InBounds(Rev(StoredLac.shape), c)
              /\ NewColors[i] = <<At(StoredLac, c), At(StoredLac, c),
                                  At(StoredLac, c), 1>>

\* both arrays stored with shape (1, 1, 2), the values 5 then 7: the vertices
\* (0, 0, 0) and (1, 0, 0) get 5 and 7
C2_Witness ==
    /\ GenerateRan /\ last.ret = "FINISHED"
    /\ StoredLac.shape = <<1, 1, 2>>
    /\ StoredLac.cells[<<0, 0, 0>>] = 5 /\ StoredLac.cells[<<0, 0, 1>>] = 7
    /\ last.coords = << <<0, 0, 0>>, <<1, 0, 0>> >>
    /\ NewColors = << <<5, 5, 5, 1>>, <<7, 7, 7, 1>> >>

\* C3 (as claimed): after the sampling loop every vertex of the Cloud has had
\* its attribute assigned, and a vertex whose rounded position fails the
\* re-check (out of the mask's bounds, or mask cell not > 0) holds (0, 0, 0, 0).
C3_Original ==
    (GenerateRan /\ last.ret = "FINISHED") =>
        \A i \in 1..Len(NewCloud.vertices) :
           /\ i \in last.assigned
           /\ RecheckFails(NewCloud.vertices[i]) => NewColors[i] = Sentinel

\* C4 (as claimed): when mask and value array have different shapes, Generate
\* is cancelled and adds no object to the scene.
C4_Original ==
    ( /\ CloudBuilt \/ (GenerateRan /\ last.loads = 2)
      /\ files[LacPath].kind = "npy" /\ files[MaskPath].kind = "npy"
      /\ Len(StoredLac.shape) = 3 /\ Len(StoredMask.shape) = 3
      /\ StoredLac.shape # StoredMask.shape )
    => /\ last.ret = "CANCELLED"
       /\ last.created = <<>>
       /\ \A n \in DOMAIN data.objects : n \in DOMAIN Seeded.objects

\* C8: Generate is cancelled whenever the attribute name is empty once
\* stripped, or the param path or the mask path is empty or names no file; it
\* then has loaded no array and has left the host's data as they were.
Blank(name) == \A i \in 1..Len(name) : name[i] = " "

InvalidInput ==
    \/ Blank(settings.attribute_name)
    \/ LacPath = "" \/ ~IsFile(files, LacPath)
    \/ MaskPath = "" \/ ~IsFile(files, MaskPath)

C8_RejectsBeforeLoading ==
    [][(Invoked("generate") /\ InvalidInput) =>
          /\ last'.ret = "CANCELLED"
          /\ last'.loads = 0
          /\ last'.created = <<>>
          /\ data' = data]_vars

\* both paths name files, the attribute name is a blank: cancelled, nothing
\* loaded, the earlier run's scene untouched
C8_Witness ==
    /\ GenerateRan
    /\ settings.attribute_name = <<" ">>
    /\ IsFile(files, LacPath) /\ IsFile(files, MaskPath)
    /\ last.ret = "CANCELLED" /\ last.loads = 0
    /\ data = Seeded

----------------------------------------------------------------------------
(* Smooth: the transfer of the attribute (SpecPipe) *)

SmoothFinished == last.op = "smooth" /\ last.ret = "FINISHED"

SourceObj == data.objects[Cloud]

TargetObj == data.objects[SmoothName]

SourceColors == SourceObj.data.color_attributes[AttrName]

TargetColors == TargetObj.data.color_attributes[AttrName]

\* source vertex j is at least as near to target vertex t as every source vertex
AtMinimum(j, t) ==
    \A k \in 1..Len(SourceObj.data.vertices) :
        DistSq(World(SourceObj, SourceObj.data.vertices[j]),
               World(TargetObj, TargetObj.data.vertices[t]))
          <= DistSq(World(SourceObj, SourceObj.data.vertices[k]),
                    World(TargetObj, TargetObj.data.vertices[t]))

\* C6: after a successful Smooth every vertex of the Smooth mesh holds, as it
\* is, the attribute of a Cloud vertex at minimum distance from it (so a value
\* of the source attribute).
C6_CopiesANearestValue ==
    SmoothFinished =>
        /\ AttrName \in DOMAIN TargetObj.data.color_attributes
        /\ Len(TargetColors) = Len(TargetObj.data.vertices)
        /\ \A t \in 1..Len(TargetObj.data.vertices) :
              /\ \E j \in 1..Len(SourceObj.data.vertices) :
                    AtMinimum(j, t) /\ TargetColors[t] = SourceColors[j]
              /\ TargetColors[t] \in Range(SourceColors)

\* the Cloud (0, 0, 0), (1, 0, 0) with the values 5 and 7, and a resampled
\* vertex at (1.5, 0, 0): it gets 7
C6_Witness ==
    /\ SmoothFinished
    /\ SourceObj.data.vertices = << <<0, 0, 0>>, <<2, 0, 0>> >>
    /\ SourceColors = << <<5, 5, 5, 1>>, <<7, 7, 7, 1>> >>
    /\ TargetObj.data.vertices = << <<3, 0, 0>> >>
    /\ TargetColors = << <<7, 7, 7, 1>> >>

\* C10 (as claimed): of the source vertices at the same minimum distance from
\* a target vertex, kd.find returns the one with the smallest index; a source
\* of one vertex is returned for every target position.
C10_Original ==
    SmoothFinished =>
        \A t \in 1..Len(TargetObj.data.vertices) :
           /\ AtMinimum(last.nearest[t], t)
           /\ \A j \in 1..Len(SourceObj.data.vertices) :
                 AtMinimum(j, t) => last.nearest[t] <= j
           /\ TargetColors[t] = SourceColors[last.nearest[t]]

\* C10 (amended): kd.find returns a source vertex at minimum distance from the
\* target vertex, some one of them when several are, and the attribute copied
\* is that vertex's; a source of one vertex is returned for every target
\* position.
C10_ReturnsANearestVertex ==
    SmoothFinished =>
        \A t \in 1..Len(TargetObj.data.vertices) :
           /\ last.nearest[t] \in 1..Len(SourceObj.data.vertices)
           /\ AtMinimum(last.nearest[t], t)
           /\ TargetColors[t] = SourceColors[last.nearest[t]]
           /\ Len(SourceObj.data.vertices) = 1 => last.nearest[t] = 1

\* the Cloud (0, 0, 0), (1, 0, 0) and a resampled vertex at (0.5, 0, 0), as far
\* from the one as from the other: kd.find has returned the second
C10_Witness ==
    /\ SmoothFinished
    /\ SourceObj.data.vertices = << <<0, 0, 0>>, <<2, 0, 0>> >>
    /\ TargetObj.data.vertices = << <<1, 0, 0>> >>
    /\ AtMinimum(1, 1) /\ AtMinimum(2, 1)
    /\ last.nearest = <<2>>

----------------------------------------------------------------------------
(* Sequences of invocations (Spec) *)

\* a Cloud object that a Generate which finished has built: it carries the
\* modifier attached at the end of execute
Successful(d, n) ==
    /\ <<"Cloud", n>> \in DOMAIN d.objects
    /\ d.objects[<<"Cloud", n>>].modifiers # <<>>

\* the object SmoothName is in d what it was in e
SameSmooth(d, e) ==
    /\ SmoothName \in DOMAIN d.objects <=> SmoothName \in DOMAIN e.objects
    /\ SmoothName \in DOMAIN e.objects =>
          d.objects[SmoothName] = e.objects[SmoothName]

\* C5 (as claimed): a Generate that is cancelled leaves no object it created
\* where Smooth takes its source, and a Smooth that is cancelled leaves no
\* object it created where Subdivide takes its object.
C5_Original ==
    [][ /\ (Invoked("generate") /\ last'.ret = "CANCELLED") =>
             (Cloud \in DOMAIN data'.objects => Cloud \in DOMAIN data.objects)
        /\ (Invoked("smooth") /\ last'.ret = "CANCELLED") =>
             SameSmooth(data', data) ]_vars

\* C7 (as claimed): when the Cloud does not carry the attribute the settings
\* name, Smooth is cancelled, writes that attribute to no mesh, and neither
\* removes, replaces nor creates the object Smooth.
C7_Original ==
    [][ ( /\ Invoked("smooth")
          /\ Cloud \in DOMAIN data.objects
          /\ AttrName \notin DOMAIN data.objects[Cloud].data.color_attributes )
        => /\ last'.ret = "CANCELLED"
           /\ \A n \in DOMAIN data'.objects :
                 AttrName \notin DOMAIN data'.objects[n].data.color_attributes
           /\ SameSmooth(data', data) ]_vars

\* C9 (as claimed): a Generate changes no object, node group or material that
\* was there before it, and a Smooth that finishes has taken as its source the
\* Cloud of the latest Generate that finished.
C9_Original ==
    [][ /\ Invoked("generate") =>
             /\ \A n \in DOMAIN data.objects :
                   n \in DOMAIN data'.objects
                      /\ data'.objects[n] = data.objects[n]
             /\ \A g \in DOMAIN data.node_groups :
                   data'.node_groups[g] = data.node_groups[g]
             /\ \A m \in DOMAIN data.materials :
                   data'.materials[m] = data.materials[m]
        /\ (Invoked("smooth") /\ last'.ret = "FINISHED") =>
             /\ Successful(data, 0)
             /\ \A n \in 1..MaxOps : ~Successful(data, n) ]_vars

====
